---- MODULE Spec2Model ----
(***************************************************************************)
(* The flaky-test handler of worker.py: one invocation of handler(job),    *)
(* from input validation through the clone, framework detection, the       *)
(* bounded thread pool running run_test_once, result collection with       *)
(* as_completed, the finally block and the summary.                        *)
(***************************************************************************)
EXTENDS Integers, Sequences, FiniteSets, TLC

\* ------------------------------------------------------------------ bounds
\* Largest run count and pool size whose pool is explored in full.
MaxRuns == 3
MaxPar == 2

\* ------------------------------------------------------- program constants
MinRunsAllowed == 1
MaxRunsAllowed == 1000
MinParAllowed == 1
MaxParAllowed == 50
DefaultRuns == 10
DefaultParallelism == 4
MinSeed == 1
MaxSeed == 1000000

\* Python's None for an optional value, and a present value.
None == <<>>
Some(x) == <<x>>

\* ------------------------------------------------------------------ inputs
\* Strings whose prefix the code inspects are sequences of characters.
HttpsPrefix == <<"h", "t", "t", "p", "s", ":", "/", "/">>
GitPrefix == <<"g", "i", "t", "@">>

\* str.startswith
startswith(s, p) == Len(s) >= Len(p) /\ SubSeq(s, 1, Len(p)) = p

Repos ==
  { <<>>,
    HttpsPrefix \o <<"r">>,
    GitPrefix \o <<"r">>,
    <<"/", "r">> }

\* A tokenizable command, the empty command and one with an unbalanced quote.
TestCommands == {"", "pytest -q", "pytest 'x"}

RunsInputs == (0 .. MaxRuns) \cup {MaxRunsAllowed + 1}
ParInputs == (0 .. MaxPar) \cup {MaxParAllowed + 1}

\* A missing "runs" read as a single run.
GetRuns_DefaultOne(raw) == IF raw = None THEN 1 ELSE raw[1]

\* worker.py 150: int(inp.get("runs", 10))
GetRuns(raw) == IF raw = None THEN DefaultRuns ELSE raw[1]

\* worker.py 151: int(inp.get("parallelism", 4))
GetParallelism(raw) == IF raw = None THEN DefaultParallelism ELSE raw[1]

VARIABLES
  repo,            \* inp["repo"]
  test_command,    \* inp["test_command"]
  inp_runs,        \* inp's "runs" entry: None when the key is absent
  inp_parallelism, \* inp's "parallelism" entry: None when the key is absent
  runs,            \* int(inp.get("runs", 10))
  parallelism,     \* int(inp.get("parallelism", 4))
  framework_override, \* inp.get("framework"): None or Some(tag)
  checkout,        \* what the cloned repository holds (marker files, package.json)
  detected_framework, \* the run's framework tag
  pc,              \* the handler's position
  err,             \* the exception propagating out of the handler, or None
  cwd,             \* the process's working directory: "original" or "workdir"
  workdir,         \* the temporary checkout: "absent", "exists", "removed"
  rmtree_calls,    \* number of shutil.rmtree(workdir) calls
  next_i,          \* the submit loop's i
  futures,         \* the futures list, in submission order
  yielded,         \* positions of futures that as_completed has yielded
  results,         \* the handler's results list
  summary,         \* the returned summary, or None
  thresholds,      \* a Config's severity_thresholds, in thousandths
  rate,            \* the reproduction rate last classified, in thousandths
  severity,        \* the tier Config.get_severity returned for it
  validation,      \* validate_input's (is_valid, errors) for the request, or None
  config_file,     \* the repository's .flaky-detector.yml: None or its settings
  configs,         \* the Config instances constructed so far, oldest first
  reported,        \* the tiers shown by the Slack message and the local runner
  checkouts,       \* AccountManager._checkouts: account id -> AccountCheckout
  now,             \* time.time(), in seconds since the manager was built
  thr              \* the threads using the manager: position and local variables

vars ==
  << repo, test_command, inp_runs, inp_parallelism, runs, parallelism,
     framework_override, checkout, detected_framework, pc, err, cwd, workdir,
     rmtree_calls, next_i, futures, yielded, results, summary,
     thresholds, rate, severity, validation, config_file, configs, reported,
     checkouts, now, thr >>

request ==
  << repo, test_command, inp_runs, inp_parallelism, runs, parallelism,
     framework_override >>
pool == << next_i, futures, yielded, results >>
env == << cwd, workdir, rmtree_calls >>
\* The Config object and validate_input's answer, which the handler does not
\* touch.
config == << thresholds, rate, severity, validation >>
\* The AccountManager and the threads that use it.
accounts == << checkouts, now, thr >>
\* Everything the handler neither reads nor writes.
outside == << config, config_file, configs, reported, accounts >>
\* The handler's own state.
handler_vars ==
  << request, checkout, detected_framework, pc, err, env, pool, summary >>

\* ------------------------------------------------------------- validation
\* Validation without the parallelism check.
ValidationError_NoParallelismCheck(r, t, n, p) ==
  IF r = <<>> THEN Some(<<"ValueError", "Repository URL is required">>)
  ELSE IF t = "" THEN Some(<<"ValueError", "Test command is required">>)
  ELSE IF n < MinRunsAllowed \/ n > MaxRunsAllowed
    THEN Some(<<"ValueError", "Runs must be between 1 and 1000">>)
  ELSE IF ~(startswith(r, HttpsPrefix) \/ startswith(r, GitPrefix))
    THEN Some(<<"ValueError", "Invalid repository URL", r>>)
  ELSE None

\* Validation with the range ends excluded.
ValidationError_ExclusiveBounds(r, t, n, p) ==
  IF r = <<>> THEN Some(<<"ValueError", "Repository URL is required">>)
  ELSE IF t = "" THEN Some(<<"ValueError", "Test command is required">>)
  ELSE IF n <= MinRunsAllowed \/ n >= MaxRunsAllowed
    THEN Some(<<"ValueError", "Runs must be between 1 and 1000">>)
  ELSE IF p <= MinParAllowed \/ p >= MaxParAllowed
    THEN Some(<<"ValueError", "Parallelism must be between 1 and 50">>)
  ELSE IF ~(startswith(r, HttpsPrefix) \/ startswith(r, GitPrefix))
    THEN Some(<<"ValueError", "Invalid repository URL", r>>)
  ELSE None

\* worker.py 154-166: the first failing check decides the error.
ValidationError(r, t, n, p) ==
  IF r = <<>> THEN Some(<<"ValueError", "Repository URL is required">>)
  ELSE IF t = "" THEN Some(<<"ValueError", "Test command is required">>)
  ELSE IF n < MinRunsAllowed \/ n > MaxRunsAllowed
    THEN Some(<<"ValueError", "Runs must be between 1 and 1000">>)
  ELSE IF p < MinParAllowed \/ p > MaxParAllowed
    THEN Some(<<"ValueError", "Parallelism must be between 1 and 50">>)
  ELSE IF ~(startswith(r, HttpsPrefix) \/ startswith(r, GitPrefix))
    THEN Some(<<"ValueError", "Invalid repository URL", r>>)
  ELSE None

\* validate_input.py 69-113: _basic_validation of a config that holds repo and
\* test_command, and holds runs, parallelism and framework when they are not
\* None; the result is (is_valid, errors).
basic_validation(r, t, n, p, fw) ==
  LET e1 == IF r = <<>> THEN <<"repo must be a non-empty string">> ELSE <<>>
      e2 == IF t = "" THEN <<"test_command must be a non-empty string">> ELSE <<>>
      e3 == IF n # None /\ (n[1] < MinRunsAllowed \/ n[1] > MaxRunsAllowed)
              THEN <<"runs must be between 1 and 1000">> ELSE <<>>
      e4 == IF p # None /\ (p[1] < MinParAllowed \/ p[1] > MaxParAllowed)
              THEN <<"parallelism must be between 1 and 50">> ELSE <<>>
      e5 == IF fw # None /\ fw[1] \notin
                   {"python", "go", "typescript-jest", "typescript-vitest",
                    "javascript-mocha"}
              THEN <<"framework must be one of">> ELSE <<>>
      errors == e1 \o e2 \o e3 \o e4 \o e5
  IN  << Len(errors) = 0, errors >>

\* ---------------------------------------------------- framework detection
KnownFrameworks ==
  {"python", "go", "typescript-jest", "typescript-vitest", "javascript-mocha"}

\* A checkout: the marker files present, whether package.json parses, and
\* the union of its dependencies and devDependencies.
Checkout(fs, ok, ds) == [files |-> fs, pkg_ok |-> ok, deps |-> ds]

EmptyCheckout == Checkout({}, TRUE, {})

Checkouts ==
  { EmptyCheckout,
    Checkout({"go.mod", "package.json", "requirements.txt"}, TRUE, {"jest"}),
    Checkout({"package.json"}, TRUE, {"jest", "vitest", "mocha"}),
    Checkout({"package.json"}, TRUE, {"vitest", "mocha"}),
    Checkout({"package.json", "setup.py"}, TRUE, {"mocha"}),
    Checkout({"package.json", "pyproject.toml"}, TRUE, {"lodash"}),
    Checkout({"package.json", "requirements.txt"}, FALSE, {"jest"}),
    Checkout({"package.json"}, FALSE, {}),
    Checkout({"requirements.txt"}, TRUE, {}),
    Checkout({"pyproject.toml"}, TRUE, {}) }

\* detect_framework giving up on a package.json that does not parse.
detect_framework_ParseFailureUnknown(c) ==
  IF "go.mod" \in c.files THEN "go"
  ELSE IF "package.json" \in c.files /\ ~c.pkg_ok THEN "unknown"
  ELSE IF "package.json" \in c.files /\ "jest" \in c.deps THEN "typescript-jest"
  ELSE IF "package.json" \in c.files /\ "vitest" \in c.deps THEN "typescript-vitest"
  ELSE IF "package.json" \in c.files /\ "mocha" \in c.deps THEN "javascript-mocha"
  ELSE IF c.files \cap {"requirements.txt", "pyproject.toml", "setup.py"} # {}
    THEN "python"
  ELSE "unknown"

\* worker.py 16-45
detect_framework(c) ==
  IF "go.mod" \in c.files THEN "go"
  ELSE IF "package.json" \in c.files /\ c.pkg_ok /\ "jest" \in c.deps
    THEN "typescript-jest"
  ELSE IF "package.json" \in c.files /\ c.pkg_ok /\ "vitest" \in c.deps
    THEN "typescript-vitest"
  ELSE IF "package.json" \in c.files /\ c.pkg_ok /\ "mocha" \in c.deps
    THEN "javascript-mocha"
  ELSE IF c.files \cap {"requirements.txt", "pyproject.toml", "setup.py"} # {}
    THEN "python"
  ELSE "unknown"

\* The resolution falling back to detection for an unrecognized override.
ResolveFramework_UnknownOverrideDetects(ov, c) ==
  IF ov # None /\ ov[1] \in KnownFrameworks THEN ov[1] ELSE detect_framework(c)

\* worker.py 192-202: an override that is set bypasses detection.
ResolveFramework(ov, c) ==
  IF ov # None /\ ov[1] # ""
    THEN (IF ov[1] \in KnownFrameworks THEN ov[1] ELSE "unknown")
    ELSE detect_framework(c)

FrameworkOverrides == {None, Some(""), Some("go"), Some("python"), Some("bogus")}

\* worker.py 59-65
dependency_files(fw) ==
  CASE fw = "python" -> "requirements.txt"
    [] fw = "go" -> "go.mod"
    [] OTHER -> "package.json"

\* worker.py 67-74: whether install_dependencies reaches its subprocess.run.
InstallRuns(fw, c) == fw \in KnownFrameworks /\ dependency_files(fw) \in c.files

\* What the install command can do: succeed, exit non-zero, time out, or fail
\* to launch (the executable is missing).
InstallOutcomes == {"ok", "CalledProcessError", "TimeoutExpired", "FileNotFoundError"}

\* worker.py 76-88: the exceptions install_dependencies does not catch.
InstallRaises(out) == out \notin {"ok", "CalledProcessError", "TimeoutExpired"}

\* shlex.split over the commands of TestCommands: the token list, or a
\* ValueError for an unbalanced quote.
shlex_split(t) ==
  CASE t = "pytest -q" -> Some(<<"pytest", "-q">>)
    [] t = "" -> Some(<<>>)
    [] OTHER -> None

\* ------------------------------------------------------- attempt executor
\* What subprocess.run of the test command can do (worker.py 110): return a
\* completed process, raise TimeoutExpired, or raise another exception.
Exited(code, out, errtext) ==
  [kind |-> "exit", returncode |-> code, stdout |-> out, stderr |-> errtext]

ProcOutcomes ==
  { Exited(0, "1 passed", ""),
    Exited(1, "", "AssertionError"),
    [kind |-> "timeout", returncode |-> 0, stdout |-> "", stderr |-> ""],
    [kind |-> "error", returncode |-> 0, stdout |-> "", stderr |-> "No such file"] }

Return(v) == [tag |-> "return", value |-> v]

\* run_test_once with passed taken from the sign of the exit code.
run_test_once_PassedNonNegative(attempt, p) ==
  CASE p.kind = "exit" ->
         Return([attempt |-> attempt, exit_code |-> Some(p.returncode),
                 stdout |-> p.stdout, stderr |-> p.stderr,
                 passed |-> (p.returncode >= 0)])
    [] p.kind = "timeout" ->
         Return([attempt |-> attempt, exit_code |-> None,
                 stdout |-> "", stderr |-> "TIMEOUT", passed |-> FALSE])
    [] OTHER ->
         Return([attempt |-> attempt, exit_code |-> None,
                 stdout |-> "", stderr |-> "ERROR: " \o p.stderr, passed |-> FALSE])

\* run_test_once that catches TimeoutExpired only: another exception of
\* subprocess.run reaches the caller.
run_test_once_CatchesTimeoutOnly(attempt, p) ==
  CASE p.kind = "exit" ->
         Return([attempt |-> attempt, exit_code |-> Some(p.returncode),
                 stdout |-> p.stdout, stderr |-> p.stderr,
                 passed |-> (p.returncode = 0)])
    [] p.kind = "timeout" ->
         Return([attempt |-> attempt, exit_code |-> None,
                 stdout |-> "", stderr |-> "TIMEOUT", passed |-> FALSE])
    [] OTHER -> [tag |-> "raise", value |-> p.stderr]

\* worker.py 104-133: the record run_test_once returns for each outcome of
\* subprocess.run; for kind "error" the field stderr holds str(e).
run_test_once(attempt, p) ==
  CASE p.kind = "exit" ->
         Return([attempt |-> attempt, exit_code |-> Some(p.returncode),
                 stdout |-> p.stdout, stderr |-> p.stderr,
                 passed |-> (p.returncode = 0)])
    [] p.kind = "timeout" ->
         Return([attempt |-> attempt, exit_code |-> None,
                 stdout |-> "", stderr |-> "TIMEOUT", passed |-> FALSE])
    [] OTHER ->
         Return([attempt |-> attempt, exit_code |-> None,
                 stdout |-> "", stderr |-> "ERROR: " \o p.stderr, passed |-> FALSE])

\* ------------------------------------------------------- seeds and env
Digit(d) ==
  CASE d = 0 -> "0" [] d = 1 -> "1" [] d = 2 -> "2" [] d = 3 -> "3" [] d = 4 -> "4"
    [] d = 5 -> "5" [] d = 6 -> "6" [] d = 7 -> "7" [] d = 8 -> "8" [] OTHER -> "9"

\* str(n) of a natural number: its decimal digits.
RECURSIVE str(_)
str(n) == IF n < 10 THEN Digit(n) ELSE str(n \div 10) \o Digit(n % 10)

\* A dict is a function from its keys; d[k] = v on a dict.
DictSet(d, k, v) == [x \in (DOMAIN d) \cup {k} |-> IF x = k THEN v ELSE d[x]]

\* The seed always exported as TEST_SEED.
get_seed_env_var_AlwaysTestSeed(framework, seed_value) ==
  [x \in {"TEST_SEED"} |-> str(seed_value)]

\* worker.py 91-101
get_seed_env_var(framework, seed_value) ==
  LET name ==
        CASE framework = "python" -> "TEST_SEED"
          [] framework = "go" -> "GO_TEST_SEED"
          [] framework = "typescript-jest" -> "JEST_SEED"
          [] framework = "typescript-vitest" -> "VITE_TEST_SEED"
          [] framework = "javascript-mocha" -> "MOCHA_SEED"
          [] OTHER -> "TEST_SEED"
  IN  [x \in {name} |-> str(seed_value)]

\* worker.py 216-217: the env_overrides of attempt i.
EnvOverrides(framework, seed, i) ==
  DictSet(get_seed_env_var(framework, seed), "ATTEMPT", str(i))

\* Largest run count whose seeds vary over both ends of the range.
MaxSeededRuns == 2

\* worker.py 215: the values random.randint(1, 1_000_000) draws for a run,
\* both ends of the range on runs of at most MaxSeededRuns attempts.
SeedDraws == IF runs <= MaxSeededRuns THEN {MinSeed, MaxSeed} ELSE {MinSeed}

\* ------------------------------------------------------------ thread pool
\* A future of the pool, with the env_overrides its work item was submitted
\* with. proc is what the attempt's subprocess did (None until it ran);
\* started counts how often the pool began the work item.
NewFuture(i, e) ==
  [attempt |-> i, env |-> e, state |-> "PENDING", result |-> None,
   exception |-> None, proc |-> None, started |-> 0]

\* The message of an exception set on a future by a fault of the pool layer.
PoolFaultMessage == "pool fault"

\* A future counted as done as soon as its work item has been started.
FutureDone_NotPending(f) == f.state # "PENDING"

\* Future.done()
FutureDone(f) == f.state = "FINISHED"

Running == {k \in 1 .. Len(futures) : futures[k].state = "RUNNING"}
Pending == {k \in 1 .. Len(futures) : futures[k].state = "PENDING"}

\* A pool sized by the number of runs instead of parallelism.
PoolHasIdleWorker_MaxWorkersRuns == Cardinality(Running) < runs

\* ThreadPoolExecutor(max_workers=parallelism): a queued work item starts
\* only while fewer than max_workers worker threads are busy.
PoolHasIdleWorker == Cardinality(Running) < parallelism

\* ----------------------------------------------------------- aggregation
\* The as_completed loop without its except branch's append.
CollectStep_DropsFault(res, f) ==
  IF f.exception = None /\ f.result # None
    THEN Append(res, f.result[1])
    ELSE res

\* worker.py 220-232: one iteration of the as_completed loop on future f.
CollectStep(res, f) ==
  IF f.exception = None /\ f.result # None
    THEN Append(res, f.result[1])
    ELSE Append(res, [attempt |-> Len(res), exit_code |-> None, stdout |-> "",
                      stderr |-> "WORKER ERROR: " \o
                        (IF f.exception = None THEN "" ELSE f.exception[1]),
                      passed |-> FALSE])

\* sorted(results, key=lambda r: r["attempt"]): a stable insertion sort.
RECURSIVE InsertByAttempt(_, _)
InsertByAttempt(sorted, r) ==
  IF sorted = <<>> THEN <<r>>
  ELSE IF sorted[Len(sorted)].attempt <= r.attempt THEN Append(sorted, r)
  ELSE Append(InsertByAttempt(SubSeq(sorted, 1, Len(sorted) - 1), r),
              sorted[Len(sorted)])

\* No sort: the results in completion order.
SortedByAttempt_CompletionOrder(res) == res

RECURSIVE SortedByAttempt(_)
SortedByAttempt(res) ==
  IF res = <<>> THEN <<>>
  ELSE InsertByAttempt(SortedByAttempt(SubSeq(res, 1, Len(res) - 1)), res[Len(res)])

\* Truncation to three decimals instead of rounding.
Round3_Truncates(f, n) == (1000 * f) \div n

\* round(f / n, 3) in thousandths: the nearest multiple of 0.001, a tie
\* going to the even one (as Python's round does for every n below 80).
Round3(f, n) ==
  LET q == (1000 * f) \div n
      rem == (1000 * f) % n
  IN  IF 2 * rem < n THEN q
      ELSE IF 2 * rem > n THEN q + 1
      ELSE IF q % 2 = 0 THEN q ELSE q + 1

\* worker.py 245-254; repro_rate is held in thousandths.
BuildSummary(n, p, fw, res) ==
  LET failures == {k \in 1 .. Len(res) : ~res[k].passed}
  IN  [total_runs |-> n, parallelism |-> p, framework |-> fw,
       failures |-> Cardinality(failures),
       repro_rate |-> Round3(Cardinality(failures), n),
       results |-> SortedByAttempt(res)]

\* ----------------------------------------------------------------- Config
\* config.py 16-21: DEFAULT_CONFIG["severity_thresholds"], in thousandths.
DefaultCritical == 900
DefaultHigh == 500
DefaultMedium == 100
DefaultLow == 10

Thresholds(c, h, m, l) == [critical |-> c, high |-> h, medium |-> m, low |-> l]

DefaultThresholds == Thresholds(DefaultCritical, DefaultHigh, DefaultMedium, DefaultLow)

\* get_severity with the labels of the high and medium branches exchanged.
get_severity_TiersSwapped(th, repro_rate) ==
  IF repro_rate >= th.critical THEN "CRITICAL"
  ELSE IF repro_rate >= th.high THEN "MEDIUM"
  ELSE IF repro_rate >= th.medium THEN "HIGH"
  ELSE IF repro_rate >= th.low THEN "LOW"
  ELSE "NONE"

\* get_severity comparing with > instead of >=.
get_severity_StrictlyAbove(th, repro_rate) ==
  IF repro_rate > th.critical THEN "CRITICAL"
  ELSE IF repro_rate > th.high THEN "HIGH"
  ELSE IF repro_rate > th.medium THEN "MEDIUM"
  ELSE IF repro_rate > th.low THEN "LOW"
  ELSE "NONE"

\* config.py 70-89: Config.get_severity, the tier without its emoji.
get_severity(th, repro_rate) ==
  IF repro_rate >= th.critical THEN "CRITICAL"
  ELSE IF repro_rate >= th.high THEN "HIGH"
  ELSE IF repro_rate >= th.medium THEN "MEDIUM"
  ELSE IF repro_rate >= th.low THEN "LOW"
  ELSE "NONE"

\* Nothing reported yet by the Slack message or the local runner.
NoReport == [slack |-> "", local |-> ""]

\* tests/test_integration.py 299-308: a repository's .flaky-detector.yml
\* that sets runs and parallelism, or no such file.
ConfigFiles == {None, Some([runs |-> 25, parallelism |-> 6])}

\* A Config with the default thresholds that has classified nothing yet.
FreshConfig ==
  thresholds = DefaultThresholds /\ rate = 0 /\ severity = "" /\ validation = None

\* --------------------------------------------------------- AccountManager
\* Last second of the clock.
MaxTime == 3

\* test_accounts.py 65-75, 318: the accounts the storage loaded, in the order of
\* AccountManager._accounts (a dict keeps insertion order).
Account(i, ty, e) == [id |-> i, account_type |-> ty, environment |-> e]

AccountList ==
  << Account("user-1", "standard", "local"),
     Account("admin-1", "admin", "local"),
     Account("user-1-prod", "standard", "prod") >>

AccountIds == { AccountList[k].id : k \in 1 .. Len(AccountList) }

\* test_accounts.py 312: AccountManager.environment
ManagerEnvironment == "local"

\* test_accounts.py 300: default_timeout, in seconds.
ManagerDefaultTimeout == 300

\* The threads that use the manager.
Holders == {"A", "B", "C"}

\* The arguments the threads pass to checkout: account_type, account_id,
\* environment; None when left out.
Filter(ty, i, e) == [account_type |-> ty, account_id |-> i, environment |-> e]

Filters ==
  { Filter(None, None, None),
    Filter(Some("admin"), None, None),
    Filter(None, Some("user-1"), None),
    Filter(None, None, Some("prod")),
    Filter(Some("premium"), None, None),
    Filter(Some("admin"), None, Some("prod")) }

\* The timeout argument of checkout: left out (the default applies), or one
\* second.
Timeouts == {None, Some(1)}

\* test_accounts.py 82-89
AccountCheckout(i, at, by, to) ==
  [account_id |-> i, checked_out_at |-> at, checked_out_by |-> by, timeout |-> to]

\* del d[k]
DictDel(d, k) == [x \in (DOMAIN d) \ {k} |-> d[x]]

\* _find_available_account handing out accounts that are checked out.
find_available_account_IgnoresCheckouts(table, f) ==
  LET environment == IF f.environment # None THEN f.environment[1]
                     ELSE ManagerEnvironment
      ok(k) ==
        /\ f.account_id # None => AccountList[k].id = f.account_id[1]
        /\ f.account_type # None => AccountList[k].account_type = f.account_type[1]
        /\ AccountList[k].environment = environment
      matching == { k \in 1 .. Len(AccountList) : ok(k) }
  IN  IF matching = {} THEN None
      ELSE Some(AccountList[CHOOSE k \in matching : \A j \in matching : k <= j])

\* _find_available_account ignoring the environment argument.
find_available_account_ManagerEnvironmentOnly(table, f) ==
  LET ok(k) ==
        /\ AccountList[k].id \notin DOMAIN table
        /\ f.account_id # None => AccountList[k].id = f.account_id[1]
        /\ f.account_type # None => AccountList[k].account_type = f.account_type[1]
        /\ AccountList[k].environment = ManagerEnvironment
      matching == { k \in 1 .. Len(AccountList) : ok(k) }
  IN  IF matching = {} THEN None
      ELSE Some(AccountList[CHOOSE k \in matching : \A j \in matching : k <= j])

\* test_accounts.py 390-413, with the environment checkout resolved at 354:
\* the first account in dict order that is not checked out and passes every
\* filter that is set; None when there is none.
find_available_account(table, f) ==
  LET environment == IF f.environment # None THEN f.environment[1]
                     ELSE ManagerEnvironment
      ok(k) ==
        /\ AccountList[k].id \notin DOMAIN table
        /\ f.account_id # None => AccountList[k].id = f.account_id[1]
        /\ f.account_type # None => AccountList[k].account_type = f.account_type[1]
        /\ AccountList[k].environment = environment
      matching == { k \in 1 .. Len(AccountList) : ok(k) }
  IN  IF matching = {} THEN None
      ELSE Some(AccountList[CHOOSE k \in matching : \A j \in matching : k <= j])

\* checkin leaving the record in the table.
checkin_KeepsRecord(table, account_id) == table

\* test_accounts.py 379-388: AccountManager.checkin on the table.
checkin(table, account_id) ==
  IF account_id \in DOMAIN table THEN DictDel(table, account_id) ELSE table

\* The cleanup releasing a checkout as soon as its age reaches the timeout.
Expired_AtTimeout(c, t) == t - c.checked_out_at >= c.timeout

\* test_accounts.py 429-431: the checkout has exceeded its timeout.
Expired(c, t) == t - c.checked_out_at > c.timeout

\* A thread that holds nothing; outcome is what its last call raised.
IdleThread(out) ==
  [pc |-> "idle", account |-> None, asked |-> None, at |-> 0, timeout |-> 0,
   before |-> 0, outcome |-> out]

\* A manager just built, and threads that have not called it yet.
FreshAccounts ==
  /\ checkouts = <<>>
  /\ now = 0
  /\ thr = [t \in Holders |-> IdleThread("")]

\* ------------------------------------------------------------------- Init
\* worker.py 150-151, 168-171: the parsed counts and the handler's state on
\* entry.
FreshHandler ==
  /\ runs = GetRuns(inp_runs)
  /\ parallelism = GetParallelism(inp_parallelism)
  /\ checkout = EmptyCheckout
  /\ detected_framework = "unknown"
  /\ pc = "validate"
  /\ err = None
  /\ cwd = "original"
  /\ workdir = "absent"
  /\ rmtree_calls = 0
  /\ next_i = 0
  /\ futures = <<>>
  /\ yielded = {}
  /\ results = <<>>
  /\ summary = None

\* A handler that has not started, for the specifications of the other
\* programs.
IdleHandler ==
  /\ repo = HttpsPrefix \o <<"r">>
  /\ test_command = "pytest -q"
  /\ inp_runs = Some(1)
  /\ inp_parallelism = Some(1)
  /\ framework_override = None
  /\ FreshHandler

\* Requests: every combination of repository, command, run count and pool
\* size; the framework override varies on single-attempt requests.
Init ==
  /\ repo \in Repos
  /\ test_command \in TestCommands
  /\ inp_runs \in {Some(n) : n \in RunsInputs}
  /\ inp_parallelism \in {Some(n) : n \in ParInputs}
  /\ FreshHandler
  /\ framework_override \in FrameworkOverrides
  /\ (runs > 1 \/ parallelism > 1) => framework_override = None
  /\ FreshConfig
  /\ config_file = None
  /\ configs = <<>>
  /\ reported = NoReport
  /\ FreshAccounts

\* ---------------------------------------------------------------- handler
\* worker.py 154-166
Validate ==
  /\ pc = "validate"
  /\ LET e == ValidationError(repo, test_command, runs, parallelism)
     IN  /\ err' = e
         /\ pc' = IF e = None THEN "mkdtemp" ELSE "raised"
  /\ UNCHANGED << outside, request, checkout, detected_framework, env, pool, summary >>

\* worker.py 168-171
Mkdtemp ==
  /\ pc = "mkdtemp"
  /\ workdir' = "exists"
  /\ pc' = "clone"
  /\ UNCHANGED << outside, request, checkout, detected_framework, err, cwd, rmtree_calls,
                  pool, summary >>

\* The checkouts a clone can produce: the marker files vary on
\* single-attempt requests.
ClonedCheckouts == IF runs = 1 /\ parallelism = 1 THEN Checkouts ELSE {EmptyCheckout}

\* worker.py 175-188: git clone succeeds and leaves one of the checkouts cs
\* in the work directory, or exits non-zero, or times out.
CloneFrom(cs) ==
  /\ pc = "clone"
  /\ \/ /\ checkout' \in cs
        /\ pc' = "chdir"
        /\ err' = err
     \/ /\ \E m \in {"Failed to clone repository",
                      "Repository clone timed out after 5 minutes"} :
             err' = Some(<<"RuntimeError", m>>)
        /\ pc' = "finally"
        /\ checkout' = checkout
  /\ UNCHANGED << outside, request, detected_framework, env, pool, summary >>

Clone == CloneFrom(ClonedCheckouts)

\* worker.py 190
Chdir ==
  /\ pc = "chdir"
  /\ cwd' = "workdir"
  /\ pc' = "detect"
  /\ UNCHANGED << outside, request, checkout, detected_framework, err, workdir,
                  rmtree_calls, pool, summary >>

\* worker.py 192-202
Detect ==
  /\ pc = "detect"
  /\ detected_framework' = ResolveFramework(framework_override, checkout)
  /\ pc' = "install"
  /\ UNCHANGED << outside, request, checkout, err, env, pool, summary >>

\* worker.py 205 (install_dependencies, 48-88)
Install ==
  /\ pc = "install"
  /\ \E out \in InstallOutcomes :
       IF InstallRuns(detected_framework, checkout) /\ InstallRaises(out)
         THEN err' = Some(<<out, "install">>) /\ pc' = "finally"
         ELSE err' = err /\ pc' = "shlex"
  /\ UNCHANGED << outside, request, checkout, detected_framework, env, pool, summary >>

\* worker.py 208
Shlex ==
  /\ pc = "shlex"
  /\ IF shlex_split(test_command) = None
       THEN err' = Some(<<"ValueError", "No closing quotation">>) /\ pc' = "finally"
       ELSE err' = err /\ pc' = "submit"
  /\ UNCHANGED << outside, request, checkout, detected_framework, env, pool, summary >>

\* worker.py 214-218: one iteration of the submit loop.
Submit ==
  /\ pc = "submit"
  /\ \E seed \in SeedDraws :
       futures' = Append(futures,
                         NewFuture(next_i, EnvOverrides(detected_framework, seed, next_i)))
  /\ next_i' = next_i + 1
  /\ pc' = IF next_i + 1 < runs THEN "submit" ELSE "collect"
  /\ UNCHANGED << outside, request, checkout, detected_framework, err, env, yielded,
                  results, summary >>

\* A worker thread of the pool takes the oldest queued work item.
WorkerStart(k) ==
  /\ k \in Pending
  /\ \A j \in Pending : k <= j
  /\ PoolHasIdleWorker
  /\ futures' = [futures EXCEPT ![k].state = "RUNNING", ![k].started = @ + 1]
  /\ UNCHANGED << outside, request, checkout, detected_framework, pc, err, env, next_i,
                  yielded, results, summary >>

\* A pool that queues a failed attempt again, once.
WorkerFinish_RetryOnFailure(k, p, fault) ==
  /\ k \in Running
  /\ LET r == run_test_once(futures[k].attempt, p)
         failed == fault \/ ~r.value.passed
     IN  futures' =
           [futures EXCEPT
              ![k].state = IF failed /\ futures[k].started < 2
                             THEN "PENDING" ELSE "FINISHED",
              ![k].proc = IF fault THEN None ELSE Some(p),
              ![k].result = IF fault THEN None ELSE Some(r.value),
              ![k].exception = IF fault THEN Some(PoolFaultMessage) ELSE None]
  /\ UNCHANGED << outside, request, checkout, detected_framework, pc, err, env, next_i,
                  yielded, results, summary >>

\* The work item of future k ends: run_test_once returns the record for what
\* the subprocess did, or the pool layer sets an exception on the future.
WorkerFinish(k, p, fault) ==
  /\ k \in Running
  /\ LET r == run_test_once(futures[k].attempt, p)
     IN  futures' =
           [futures EXCEPT
              ![k].state = "FINISHED",
              ![k].proc = IF fault THEN None ELSE Some(p),
              ![k].result = IF ~fault /\ r.tag = "return" THEN Some(r.value) ELSE None,
              ![k].exception =
                 IF fault THEN Some(PoolFaultMessage)
                 ELSE IF r.tag = "return" THEN None ELSE Some(r.value)]
  /\ UNCHANGED << outside, request, checkout, detected_framework, pc, err, env, next_i,
                  yielded, results, summary >>

\* worker.py 219-232: as_completed yields a finished future not yet yielded.
Collect(k) ==
  /\ pc = "collect"
  /\ k \in (1 .. Len(futures)) \ yielded
  /\ FutureDone(futures[k])
  /\ results' = CollectStep(results, futures[k])
  /\ yielded' = yielded \cup {k}
  /\ UNCHANGED << outside, request, checkout, detected_framework, pc, err, env, next_i,
                  futures, summary >>

\* as_completed is exhausted once it has yielded every future.
AsCompletedExhausted == yielded = 1 .. Len(futures)

\* ThreadPoolExecutor.__exit__: shutdown(wait=True) returns once every work
\* item has finished.
ShutdownWaited == \A k \in 1 .. Len(futures) : FutureDone(futures[k])

\* worker.py 219, 212: the loop ends and the with block is left.
PoolExit ==
  /\ pc = "collect"
  /\ AsCompletedExhausted
  /\ ShutdownWaited
  /\ pc' = "finally"
  /\ UNCHANGED << outside, request, checkout, detected_framework, err, env, pool, summary >>

\* worker.py 238
FinallyChdir ==
  /\ pc = "finally"
  /\ cwd' = "original"
  /\ pc' = "rmtree"
  /\ UNCHANGED << outside, request, checkout, detected_framework, err, workdir,
                  rmtree_calls, pool, summary >>

\* The finally clause removing the checkout only when no exception is pending.
FinallyRmtree_SkipsOnError ==
  /\ pc = "rmtree"
  /\ rmtree_calls' = IF err = None THEN rmtree_calls + 1 ELSE rmtree_calls
  /\ \E removed \in BOOLEAN :
       workdir' = IF removed /\ err = None THEN "removed" ELSE "exists"
  /\ pc' = IF err = None THEN "build" ELSE "raised"
  /\ UNCHANGED << outside, request, checkout, detected_framework, err, cwd, pool, summary >>

\* worker.py 240-243: rmtree removes the checkout or fails with a warning;
\* then the pending exception, if any, propagates.
FinallyRmtree ==
  /\ pc = "rmtree"
  /\ rmtree_calls' = rmtree_calls + 1
  /\ \E removed \in BOOLEAN : workdir' = IF removed THEN "removed" ELSE "exists"
  /\ pc' = IF err = None THEN "build" ELSE "raised"
  /\ UNCHANGED << outside, request, checkout, detected_framework, err, cwd, pool, summary >>

\* worker.py 245-254
ReturnSummary ==
  /\ pc = "build"
  /\ summary' = Some(BuildSummary(runs, parallelism, detected_framework, results))
  /\ pc' = "returned"
  /\ UNCHANGED << outside, request, checkout, detected_framework, err, env, pool >>

Next ==
  \/ Validate
  \/ Mkdtemp
  \/ Clone
  \/ Chdir
  \/ Detect
  \/ Install
  \/ Shlex
  \/ Submit
  \/ \E k \in 1 .. Len(futures) : WorkerStart(k)
  \/ \E k \in 1 .. Len(futures), p \in ProcOutcomes, fault \in BOOLEAN :
       WorkerFinish(k, p, fault)
  \/ \E k \in 1 .. Len(futures) : Collect(k)
  \/ PoolExit
  \/ FinallyChdir
  \/ FinallyRmtree
  \/ ReturnSummary

Spec == Init /\ [][Next]_vars

\* ------------------------------------------------------ handler to its end
\* Valid requests of one or two attempts on every curated checkout. The
\* handler is sequential code and every subprocess it waits for has a timeout
\* (worker.py 82, 110, 182), so a step that can be taken is taken: weak
\* fairness of Next.
InitEnds ==
  /\ repo = HttpsPrefix \o <<"r">>
  /\ test_command \in {"pytest -q", "pytest 'x"}
  /\ inp_runs \in {Some(1), Some(2)}
  /\ inp_parallelism \in {Some(1), Some(2)}
  /\ framework_override = None
  /\ FreshHandler
  /\ FreshConfig
  /\ config_file = None
  /\ configs = <<>>
  /\ reported = NoReport
  /\ FreshAccounts

SpecEnds == InitEnds /\ [][Next]_vars /\ WF_vars(Next)

\* ------------------------------------------------ requests with defaults
\* Requests that omit runs or parallelism. A run of DefaultRuns attempts has
\* too many completion orders and outcomes to enumerate: here every attempt
\* exits with 0 and as_completed yields the futures in index order.
InitDefaults ==
  /\ repo = HttpsPrefix \o <<"r">>
  /\ test_command = "pytest -q"
  /\ inp_runs \in {None, Some(1), Some(2)}
  /\ inp_parallelism \in {None, Some(1), Some(2)}
  /\ framework_override = None
  /\ FreshHandler
  /\ FreshConfig
  /\ config_file \in ConfigFiles
  /\ configs = <<>>
  /\ reported = NoReport
  /\ FreshAccounts

PassesOnly(k) == WorkerFinish(k, Exited(0, "1 passed", ""), FALSE)

CollectInOrder(k) == Collect(k) /\ \A j \in (1 .. Len(futures)) \ yielded : k <= j

NextDefaults ==
  \/ Validate
  \/ Mkdtemp
  \/ Clone
  \/ Chdir
  \/ Detect
  \/ Install
  \/ Shlex
  \/ Submit
  \/ \E k \in 1 .. Len(futures) : WorkerStart(k)
  \/ \E k \in 1 .. Len(futures) : PassesOnly(k)
  \/ \E k \in 1 .. Len(futures) : CollectInOrder(k)
  \/ PoolExit
  \/ FinallyChdir
  \/ FinallyRmtree
  \/ ReturnSummary

SpecDefaults == InitDefaults /\ [][NextDefaults]_vars

\* ------------------------------------------- preparation of the attempts
\* The handler from its entry to the submission of the last attempt, over
\* every combination of marker files a checkout can hold.
MarkerFiles ==
  {"go.mod", "package.json", "requirements.txt", "pyproject.toml", "setup.py"}

TestRunners == {"jest", "vitest", "mocha"}

AllCheckouts ==
  { Checkout(fs, ok, ds) :
      fs \in SUBSET (MarkerFiles \ {"package.json"}), ok \in {TRUE}, ds \in {{}} }
  \cup
  { Checkout(fs \cup {"package.json"}, ok, ds) :
      fs \in SUBSET (MarkerFiles \ {"package.json"}), ok \in BOOLEAN,
      ds \in SUBSET TestRunners }

PrepareOverrides ==
  {None, Some(""), Some("bogus")} \cup { Some(f) : f \in KnownFrameworks }

InitPrepare ==
  /\ repo = HttpsPrefix \o <<"r">>
  /\ test_command \in {"pytest -q", "pytest 'x"}
  /\ inp_runs \in { Some(n) : n \in 1 .. MaxRuns }
  /\ inp_parallelism = Some(1)
  /\ framework_override \in PrepareOverrides
  /\ FreshHandler
  /\ FreshConfig
  /\ config_file = None
  /\ configs = <<>>
  /\ reported = NoReport
  /\ FreshAccounts

CloneAny == CloneFrom(AllCheckouts)

NextPrepare ==
  \/ Validate
  \/ Mkdtemp
  \/ CloneAny
  \/ Chdir
  \/ Detect
  \/ Install
  \/ Shlex
  \/ Submit

SpecPrepare == InitPrepare /\ [][NextPrepare]_vars

\* ------------------------------------------------ severity classification
\* Config(config_dict) with every choice of the four thresholds, followed by
\* calls of get_severity on rates at and next to the thresholds.
ThresholdValues == {DefaultLow, DefaultMedium, DefaultHigh, DefaultCritical}

RateValues ==
  {0, 1000} \cup { v + d : v \in ThresholdValues, d \in {-1, 0, 1} }

InitSeverity ==
  /\ repo = HttpsPrefix \o <<"r">>
  /\ test_command = "pytest -q"
  /\ inp_runs = Some(1)
  /\ inp_parallelism = Some(1)
  /\ framework_override = None
  /\ FreshHandler
  /\ thresholds \in { Thresholds(c, h, m, l) : c \in ThresholdValues, h \in ThresholdValues,
                                               m \in ThresholdValues, l \in ThresholdValues }
  /\ rate = 0
  /\ severity = ""
  /\ validation = None
  /\ config_file = None
  /\ configs = <<>>
  /\ reported = NoReport
  /\ FreshAccounts

\* config.py 70-89: one call config.get_severity(repro_rate), for a rate of R.
GetSeverityOf(R) ==
  /\ \E r \in R :
       /\ rate' = r
       /\ severity' = get_severity(thresholds, r)
  /\ UNCHANGED << handler_vars, thresholds, validation, config_file, configs, reported,
                  accounts >>

GetSeverity == GetSeverityOf(RateValues)

NextSeverity == GetSeverity

SpecSeverity == InitSeverity /\ [][NextSeverity]_vars

\* ------------------------------------------------------ Config instances
\* Largest number of Config objects constructed.
MaxConfigs == 3

\* The config_dict arguments of Config(...): None, or the keys it overrides.
\* severity_thresholds is a dict of some of the four tiers.
ConfigOverrides ==
  { None,
    Some([runs |-> 25]),
    Some([severity_thresholds |-> [critical |-> 950, high |-> 600]]),
    Some([parallelism |-> 6, severity_thresholds |-> [low |-> 50]]) }

\* dict.update
DictUpdate(d, u) == [k \in (DOMAIN d) \cup (DOMAIN u) |-> IF k \in DOMAIN u THEN u[k] ELSE d[k]]

\* A key of the top level of a Config after the merge (config.py 41-50):
\* the override's value when it gives one, else the default.
Merged(ov, key, default) ==
  IF ov # None /\ key \in DOMAIN ov[1] THEN ov[1][key] ELSE default

\* config.py 35-50: Config(config_dict). DEFAULT_CONFIG.copy() is a shallow
\* copy, so the new instance's "severity_thresholds" is the dict object of
\* DEFAULT_CONFIG itself (the variable thresholds), and _merge_config
\* updates that object in place.
NewConfig(ov) ==
  /\ Len(configs) < MaxConfigs
  /\ configs' = Append(configs,
                       [runs |-> Merged(ov, "runs", DefaultRuns),
                        parallelism |-> Merged(ov, "parallelism", DefaultParallelism),
                        config_dict |-> ov])
  /\ thresholds' = IF ov # None /\ "severity_thresholds" \in DOMAIN ov[1]
                     THEN DictUpdate(thresholds, ov[1].severity_thresholds)
                     ELSE thresholds
  /\ UNCHANGED << handler_vars, rate, severity, validation, config_file, reported,
                  accounts >>

\* config.py 66-68: instance k's get("severity_thresholds"), the shared dict.
SeverityThresholdsOf(k) == thresholds

InitConfig ==
  /\ IdleHandler
  /\ FreshConfig
  /\ config_file = None
  /\ configs = <<>>
  /\ reported = NoReport
  /\ FreshAccounts

NextConfig ==
  \/ \E ov \in ConfigOverrides : NewConfig(ov)
  \/ Len(configs) > 0 /\ GetSeverity

SpecConfig == InitConfig /\ [][NextConfig]_vars

\* ------------------------------------------------- reports of the severity
\* report_to_slack.py 19-39: the severity of create_slack_message.
create_slack_message(repro_rate) ==
  IF repro_rate > 900 THEN "CRITICAL"
  ELSE IF repro_rate > 500 THEN "HIGH"
  ELSE IF repro_rate > 100 THEN "MEDIUM"
  ELSE IF repro_rate > 0 THEN "LOW"
  ELSE "NONE"

\* local_test.py 148-176: the severity the local runner prints.
local_test_severity(repro_rate) ==
  IF repro_rate > 900 THEN "CRITICAL"
  ELSE IF repro_rate > 500 THEN "HIGH"
  ELSE IF repro_rate > 100 THEN "MEDIUM"
  ELSE IF repro_rate > 0 THEN "LOW"
  ELSE "NONE"

\* The reproduction rates a run can produce: round(failures / runs, 3).
ReproRates == 0 .. 1000

\* A result with any reproduction rate, and a Config with the defaults.
InitReport ==
  /\ IdleHandler
  /\ thresholds = DefaultThresholds
  /\ rate \in ReproRates
  /\ severity = ""
  /\ validation = None
  /\ config_file = None
  /\ configs = <<>>
  /\ reported = NoReport
  /\ FreshAccounts

\* report_to_slack.py 13-39: create_slack_message(result)
SlackMessage ==
  /\ reported.slack = ""
  /\ reported' = [reported EXCEPT !.slack = create_slack_message(rate)]
  /\ UNCHANGED << handler_vars, config, config_file, configs, accounts >>

\* local_test.py 127, 148-176: main prints the severity of the result.
LocalReport ==
  /\ reported.local = ""
  /\ reported' = [reported EXCEPT !.local = local_test_severity(rate)]
  /\ UNCHANGED << handler_vars, config, config_file, configs, accounts >>

\* Config().get_severity on the result's rate.
ClassifyResult == severity = "" /\ GetSeverityOf({rate})

NextReport == ClassifyResult \/ SlackMessage \/ LocalReport

SpecReport == InitReport /\ [][NextReport]_vars

\* ------------------------------------------------- validation on its own
\* The counts at and next to the ends of the accepted ranges.
BoundaryRuns ==
  {MinRunsAllowed - 1, MinRunsAllowed, MaxRunsAllowed, MaxRunsAllowed + 1}
BoundaryPar ==
  {MinParAllowed - 1, MinParAllowed, MaxParAllowed, MaxParAllowed + 1}

InitValidate ==
  /\ repo \in Repos
  /\ test_command \in TestCommands
  /\ inp_runs \in {Some(n) : n \in BoundaryRuns}
  /\ inp_parallelism \in {Some(n) : n \in BoundaryPar}
  /\ framework_override \in {None, Some("bogus")}
  /\ FreshHandler
  /\ FreshConfig
  /\ config_file = None
  /\ configs = <<>>
  /\ reported = NoReport
  /\ FreshAccounts

\* validate_input.py 27-42: validate_input(config) on the request, by
\* _basic_validation.
ValidateInput ==
  /\ validation = None
  /\ validation' = Some(basic_validation(repo, test_command, inp_runs,
                                        inp_parallelism, framework_override))
  /\ UNCHANGED << handler_vars, thresholds, rate, severity, config_file, configs,
                  reported, accounts >>

\* The handler up to the end of its validation, and validate_input.
NextValidate == Validate \/ ValidateInput

SpecValidate == InitValidate /\ [][NextValidate]_vars

\* ------------------------------------------- the manager's threads
\* test_accounts.py 328-377: manager.checkout(...) by thread t, directly or
\* on entering `with checkout_account(...)` (test_accounts.py 508-515).
ManagerCheckout(t, f, to, with_block) ==
  /\ thr[t].pc = "idle"
  /\ LET timeout == IF to # None THEN to[1] ELSE ManagerDefaultTimeout
         available == find_available_account(checkouts, f)
     IN  IF available = None
           THEN /\ thr' = [thr EXCEPT ![t] = [IdleThread("RuntimeError") EXCEPT
                                                !.asked = Some(f)]]
                /\ checkouts' = checkouts
           ELSE /\ checkouts' = DictSet(checkouts, available[1].id,
                                        AccountCheckout(available[1].id, now, t, timeout))
                /\ thr' = [thr EXCEPT ![t] =
                             [pc |-> IF with_block THEN "in_block" ELSE "holding",
                              account |-> Some(available[1].id), asked |-> Some(f),
                              at |-> now, timeout |-> timeout,
                              before |-> IF with_block
                                           THEN Cardinality(DOMAIN checkouts) ELSE 0,
                              outcome |-> ""]]
  /\ now' = now

\* test_accounts.py 379-388: manager.checkin(account.id) by the thread that
\* checked the account out.
ManagerCheckin(t) ==
  /\ thr[t].pc = "holding"
  /\ checkouts' = checkin(checkouts, thr[t].account[1])
  /\ thr' = [thr EXCEPT ![t] = IdleThread("")]
  /\ now' = now

\* test_accounts.py 517-518: the with-block ends, normally or by raising.
BlockEnds(t, raises) ==
  /\ thr[t].pc = "in_block"
  /\ thr' = [thr EXCEPT ![t].pc = IF raises THEN "finally_raising" ELSE "finally"]
  /\ UNCHANGED << checkouts, now >>

\* test_accounts.py 519-520: the finally clause checks the account in; an
\* exception of the block goes on to the caller.
LeaveBlock(t) ==
  /\ thr[t].pc \in {"finally", "finally_raising"}
  /\ checkouts' = checkin(checkouts, thr[t].account[1])
  /\ thr' = [thr EXCEPT ![t] =
               IdleThread(IF thr[t].pc = "finally_raising" THEN "BlockError" ELSE "")]
  /\ now' = now

\* test_accounts.py 379-388: manager.checkin(id) for an id that is not
\* checked out.
CheckinUnknown(t, i) ==
  /\ thr[t].pc = "idle"
  /\ thr[t].outcome # ""
  /\ i \notin DOMAIN checkouts
  /\ checkouts' = checkin(checkouts, i)
  /\ thr' = [thr EXCEPT ![t] = IdleThread("")]
  /\ now' = now

\* test_accounts.py 421-438: one pass of the cleanup thread.
CleanupExpired ==
  /\ LET expired == { i \in DOMAIN checkouts : Expired(checkouts[i], now) }
     IN  checkouts' = [i \in (DOMAIN checkouts) \ expired |-> checkouts[i]]
  /\ UNCHANGED << now, thr >>

\* A second passes.
Tick ==
  /\ now < MaxTime
  /\ now' = now + 1
  /\ UNCHANGED << checkouts, thr >>

\* What the manager's threads leave alone.
beyond_accounts == << handler_vars, config, config_file, configs, reported >>

\* The steps of the threads in T, whose checkouts take their filters from F,
\* their timeouts from TO and are with-blocks or not as W says.
ThreadStep(T, F, TO, W) ==
  \E t \in T :
    \/ \E f \in F, to \in TO, w \in W : ManagerCheckout(t, f, to, w)
    \/ ManagerCheckin(t)
    \/ \E raises \in BOOLEAN : BlockEnds(t, raises)
    \/ LeaveBlock(t)
    \/ \E i \in AccountIds \cup {"nope"} : CheckinUnknown(t, i)

\* Checkouts without filters.
NoFilter == {Filter(None, None, None)}

InitAccounts ==
  /\ IdleHandler
  /\ FreshConfig
  /\ config_file = None
  /\ configs = <<>>
  /\ reported = NoReport
  /\ FreshAccounts

NextAccounts ==
  \/ ThreadStep(Holders, NoFilter, Timeouts, BOOLEAN) /\ UNCHANGED beyond_accounts
  \/ CleanupExpired /\ UNCHANGED beyond_accounts
  \/ Tick /\ UNCHANGED beyond_accounts

\* Three threads with unfiltered checkouts, the clock and the cleanup thread.
SpecAccounts == InitAccounts /\ [][NextAccounts]_vars

\* Checkout and checkin calls of three threads with every filter, while no
\* time passes.
NextCheckout == ThreadStep(Holders, Filters, {None}, BOOLEAN) /\ UNCHANGED beyond_accounts

SpecCheckout == InitAccounts /\ [][NextCheckout]_vars

\* Two threads and the cleanup thread; _cleanup_loop (test_accounts.py
\* 415-419) runs _cleanup_expired again and again for as long as the process
\* lives, hence the weak fairness of CleanupExpired.
CleanupPass == CleanupExpired /\ UNCHANGED beyond_accounts

NextCleanup ==
  \/ ThreadStep({"A", "B"}, NoFilter, Timeouts, BOOLEAN) /\ UNCHANGED beyond_accounts
  \/ CleanupPass
  \/ Tick /\ UNCHANGED beyond_accounts

SpecCleanup == InitAccounts /\ [][NextCleanup]_vars /\ WF_vars(CleanupPass)

\* One thread using checkout_account while another may hold an account with
\* the default timeout, which outlasts the clock.
InitContext ==
  /\ IdleHandler
  /\ FreshConfig
  /\ config_file = None
  /\ configs = <<>>
  /\ reported = NoReport
  /\ now = 0
  /\ \/ FreshAccounts
     \/ /\ checkouts = [i \in {"admin-1"} |-> AccountCheckout(i, 0, "B", ManagerDefaultTimeout)]
        /\ thr = [t \in Holders |->
                   IF t = "B"
                     THEN [pc |-> "holding", account |-> Some("admin-1"),
                           asked |-> Some(Filter(Some("admin"), None, None)), at |-> 0,
                           timeout |-> ManagerDefaultTimeout, before |-> 0, outcome |-> ""]
                     ELSE IdleThread("")]

NextContext ==
  \/ ThreadStep({"A"}, Filters, Timeouts, {TRUE}) /\ UNCHANGED beyond_accounts
  \/ CleanupPass
  \/ Tick /\ UNCHANGED beyond_accounts

SpecContext == InitContext /\ [][NextContext]_vars

\* ================================================================ claims
Returned == pc = "returned"
ReturnedResults == summary[1].results
Positions == 1 .. Len(futures)

\* The future at position k ended with an exception set on it.
Faulted(k) == futures[k].state = "FINISHED" /\ futures[k].exception # None

\* The subprocess of the future at position k ended as kind.
Ended(k, kind) ==
  /\ futures[k].state = "FINISHED"
  /\ futures[k].proc # None
  /\ futures[k].proc[1].kind = kind

\* C1: every returned summary has exactly `runs` results, whatever the
\* attempts' outcomes were (exit 0, non-zero exit, timeout, launch error, or
\* an exception raised when the result is fetched from the future), and once
\* an attempt has been submitted no outcome makes the handler raise.
C1_ExactlyRunsResults ==
  /\ Returned => Len(ReturnedResults) = runs
  /\ pc = "raised" => futures = <<>>

\* C1 witness: a summary returned after a run that mixed a fetch that raised,
\* a timeout and a passing attempt.
C1_Witness ==
  /\ Returned
  /\ \E a, b, c \in Positions :
       /\ Faulted(a)
       /\ Ended(b, "timeout")
       /\ Ended(c, "exit") /\ futures[c].proc[1].returncode = 0

\* C2: in every returned summary the attempt values of the results are
\* exactly 0 .. runs-1, also when a fetch raised and a result was synthesized.
C2_AttemptsDenseUnique ==
  Returned =>
    {ReturnedResults[k].attempt : k \in 1 .. Len(ReturnedResults)} = 0 .. (runs - 1)

\* C3: at every moment the number of attempts whose test command is
\* executing is at most `parallelism`.
C3_AtMostParallelismRunning == Cardinality(Running) <= parallelism

\* C3 witness: the pool is saturated while further attempts wait in its queue.
C3_Witness ==
  /\ Cardinality(Running) = parallelism
  /\ parallelism >= 2
  /\ Pending # {}

\* C4: no attempt is executing or still queued once the handler restores the
\* working directory, removes the checkout, builds the summary or returns.
C4_PoolDrainedBeforeCleanup ==
  pc \in {"finally", "rmtree", "build", "returned", "raised"} =>
    Running = {} /\ Pending = {}

\* C4 witness: the handler is about to remove the checkout after a run of
\* several attempts.
C4_Witness == pc = "rmtree" /\ Len(futures) = runs /\ runs >= 2

\* C5: every index 0 .. runs-1 is submitted once and executed exactly once:
\* no attempt is started twice, and when the pool is left every index has
\* been started once and has finished, whatever failed before it.
C5_EachIndexExecutedOnce ==
  /\ Len(futures) = next_i
  /\ \A k \in Positions : futures[k].attempt = k - 1 /\ futures[k].started <= 1
  /\ pc \in {"build", "returned"} =>
       /\ Len(futures) = runs
       /\ \A k \in Positions : futures[k].started = 1 /\ futures[k].state = "FINISHED"

\* C5 witness: a summary returned after the first attempt failed and a later
\* attempt, started after that failure, ran once.
C5_Witness ==
  /\ Returned
  /\ runs >= 2
  /\ Ended(1, "exit") /\ futures[1].proc[1].returncode # 0
  /\ results[1].attempt = 0
  /\ futures[2].started = 1

\* C6: the results list of the summary is in ascending order of attempt,
\* for every completion order.
C6_ResultsAscending ==
  Returned =>
    \A j, k \in 1 .. Len(ReturnedResults) :
      j < k => ReturnedResults[j].attempt <= ReturnedResults[k].attempt

\* C6 witness: a summary returned after the attempts completed out of index
\* order.
C6_Witness ==
  /\ Returned
  /\ \E j, k \in 1 .. Len(results) : j < k /\ results[j].attempt > results[k].attempt

\* The failing results of a returned summary.
ReturnedFailures == {k \in 1 .. Len(ReturnedResults) : ~ReturnedResults[k].passed}

\* C7: failures is the number of results with passed = false and repro_rate
\* (in thousandths) is a multiple of 0.001 nearest to failures / runs; all
\* attempts exiting 0 gives 0 and 0.0, no attempt exiting 0 gives runs and 1.0.
C7_FailuresAndReproRate ==
  Returned =>
    LET s == summary[1]
        d == s.repro_rate * runs - 1000 * Cardinality(ReturnedFailures)
    IN  /\ s.failures = Cardinality(ReturnedFailures)
        /\ 2 * d <= runs /\ -2 * d <= runs
        /\ (\A k \in Positions : Ended(k, "exit") /\ futures[k].proc[1].returncode = 0)
             => s.failures = 0 /\ s.repro_rate = 0
        /\ (\A k \in Positions : ~(Ended(k, "exit") /\ futures[k].proc[1].returncode = 0))
             => s.failures = runs /\ s.repro_rate = 1000

\* C7 witness: a summary whose rate needs rounding up (two failures in three).
C7_Witness ==
  /\ Returned
  /\ runs = 3
  /\ summary[1].failures = 2
  /\ summary[1].repro_rate = 667

\* The results list the loop builds when the futures complete in index order.
RECURSIVE CollectInIndexOrder(_)
CollectInIndexOrder(fs) ==
  IF fs = <<>> THEN <<>>
  ELSE CollectStep(CollectInIndexOrder(SubSeq(fs, 1, Len(fs) - 1)), fs[Len(fs)])

\* C8: for fixed attempt outcomes every completion order yields the same
\* summary: the one returned equals the one of completion in index order.
C8_OrderIndependent ==
  Returned =>
    summary[1] = BuildSummary(runs, parallelism, detected_framework,
                              CollectInIndexOrder(futures))

\* A result record of the run: one collected, or one held by a future.
RunRecords ==
  {results[k] : k \in 1 .. Len(results)}
    \cup {futures[k].result[1] : k \in {j \in Positions : futures[j].result # None}}

\* C9: in every result record of a run passed is true iff exit_code is 0;
\* an attempt whose process exited has a record with that exit code, the
\* captured stdout and stderr, and the attempt index it was submitted with.
C9_PassedIffExitZero ==
  /\ \A r \in RunRecords : r.passed <=> (r.exit_code = Some(0))
  /\ \A k \in Positions :
       Ended(k, "exit") =>
         /\ futures[k].result # None
         /\ LET r == futures[k].result[1]
                p == futures[k].proc[1]
            IN  /\ r.attempt = k - 1
                /\ r.exit_code = Some(p.returncode)
                /\ r.stdout = p.stdout
                /\ r.stderr = p.stderr

\* C9 witness: the handler has collected a passing record, a record with a
\* non-zero exit code and a synthesized record.
C9_Witness ==
  \E a, b, c \in 1 .. Len(results) :
    /\ results[a].exit_code = Some(0) /\ results[a].passed
    /\ results[b].exit_code = Some(1) /\ ~results[b].passed
    /\ results[c].stderr = "WORKER ERROR: " \o PoolFaultMessage

\* C10: run_test_once never raises: an attempt whose subprocess timed out
\* or failed to run ends with a result, not an exception; the record has no
\* exit code, passed = false, the attempt index it was given, and stderr
\* "TIMEOUT", respectively "ERROR: " followed by the error message.
C10_RunTestOnceNeverRaises ==
  \A k \in Positions :
    (futures[k].state = "FINISHED" /\ futures[k].proc # None) =>
      /\ futures[k].exception = None
      /\ futures[k].result # None
      /\ LET r == futures[k].result[1]
             p == futures[k].proc[1]
         IN  /\ p.kind = "timeout" =>
                  r = [attempt |-> k - 1, exit_code |-> None, stdout |-> "",
                       stderr |-> "TIMEOUT", passed |-> FALSE]
             /\ p.kind = "error" =>
                  r = [attempt |-> k - 1, exit_code |-> None, stdout |-> "",
                       stderr |-> "ERROR: No such file", passed |-> FALSE]

\* C10 witness: one attempt of a run timed out and a later one could not be
\* launched.
C10_Witness ==
  \E a, b \in Positions : a < b /\ Ended(a, "timeout") /\ Ended(b, "error")

\* The records the scheduler synthesized for fetches that raised.
Synthesized ==
  {k \in 1 .. Len(results) : results[k].stderr = "WORKER ERROR: " \o PoolFaultMessage}

\* C11: for every future whose fetch raised the results hold a failing record
\* (no exit code, passed = false, worker-error marker) whose attempt is the
\* index of that future's attempt, and the remaining futures are collected.
C11_FaultedSlotKeepsIndex ==
  /\ \A k \in Synthesized : results[k].exit_code = None /\ ~results[k].passed
  /\ {results[k].attempt : k \in Synthesized}
       = {futures[k].attempt : k \in {j \in yielded : Faulted(j)}}
  /\ Returned => Len(results) = runs

\* The request breaks one of the handler's input rules.
RepoMalformed == repo # <<>> /\ ~startswith(repo, HttpsPrefix) /\ ~startswith(repo, GitPrefix)
RunsOutOfRange == runs < 1 \/ runs > 1000
ParOutOfRange == parallelism < 1 \/ parallelism > 50
InvalidRequest ==
  repo = <<>> \/ test_command = "" \/ RunsOutOfRange \/ ParOutOfRange \/ RepoMalformed

\* C12: an invalid request is rejected with an error before any side effect:
\* no temporary directory, no clone, no change of directory, no attempt.
C12_InvalidRejectedWithoutSideEffects ==
  InvalidRequest =>
    /\ pc \in {"validate", "raised"}
    /\ pc = "raised" => err # None /\ err[1][1] = "ValueError"
    /\ workdir = "absent" /\ rmtree_calls = 0
    /\ checkout = EmptyCheckout
    /\ cwd = "original"
    /\ futures = <<>> /\ results = <<>>

\* C12 witness: a request whose only fault is a parallelism of 51 has been
\* rejected.
C12_Witness ==
  /\ pc = "raised"
  /\ parallelism = 51
  /\ ~RunsOutOfRange /\ ~RepoMalformed /\ repo # <<>> /\ test_command # ""

\* The message of the error the handler raised.
ErrMessage == err[1][2]

\* The errors validate_input reported.
ReportedErrors == {validation[1][2][k] : k \in 1 .. Len(validation[1][2])}

\* C13: runs 1 and 1000 and parallelism 1 and 50 are accepted, runs 0 and
\* 1001 and parallelism 0 and 51 are rejected, and the error names a rule the
\* request breaks, each rule having a message of its own; validate_input
\* reports the same range errors.
C13_RangesInclusiveErrorsDistinct ==
  /\ validation # None =>
       /\ "runs must be between 1 and 1000" \in ReportedErrors <=> RunsOutOfRange
       /\ "parallelism must be between 1 and 50" \in ReportedErrors <=> ParOutOfRange
       /\ "repo must be a non-empty string" \in ReportedErrors <=> repo = <<>>
       /\ "test_command must be a non-empty string" \in ReportedErrors
            <=> test_command = ""
  /\ pc # "validate" =>
       /\ (pc = "raised") <=> InvalidRequest
       /\ runs \in {0, 1001} => pc = "raised"
       /\ parallelism \in {0, 51} => pc = "raised"
       /\ (runs \in {1, 1000} /\ parallelism \in {1, 50} /\ repo # <<>>
             /\ ~RepoMalformed /\ test_command # "") => pc = "mkdtemp"
       /\ pc = "raised" =>
            /\ ErrMessage = "Repository URL is required" <=> repo = <<>>
            /\ ErrMessage = "Test command is required" => test_command = ""
            /\ ErrMessage = "Runs must be between 1 and 1000" => RunsOutOfRange
            /\ ErrMessage = "Parallelism must be between 1 and 50" => ParOutOfRange
            /\ ErrMessage = "Invalid repository URL" => RepoMalformed
            /\ ErrMessage \in {"Repository URL is required", "Test command is required",
                               "Runs must be between 1 and 1000",
                               "Parallelism must be between 1 and 50",
                               "Invalid repository URL"}

\* C13 witness: a request with runs = 1000 and parallelism = 50 has passed
\* the handler's validation and validate_input.
C13_Witness ==
  /\ pc = "mkdtemp" /\ runs = 1000 /\ parallelism = 50
  /\ validation = Some(<< TRUE, <<>> >>)

Resolved == pc \in {"install", "shlex", "submit", "collect"}

\* The request carries no override, so detect_framework decides.
NoOverride == framework_override = None \/ framework_override = Some("")

\* The checkout's package.json exists and parses.
ManifestParsed == "package.json" \in checkout.files /\ checkout.pkg_ok

PythonMarked ==
  checkout.files \cap {"requirements.txt", "pyproject.toml", "setup.py"} # {}

\* C15: detect_framework returns the first match in the priority order go.mod,
\* then a parseable package.json declaring jest, else vitest, else mocha, then
\* a Python marker, then unknown; a package.json that does not parse is
\* treated as absent and detection continues with the Python markers.
C15_DetectionPriority ==
  (Resolved /\ NoOverride) =>
    LET go == "go.mod" \in checkout.files
        d  == checkout.deps
    IN  /\ go => detected_framework = "go"
        /\ (~go /\ ManifestParsed /\ "jest" \in d) =>
             detected_framework = "typescript-jest"
        /\ (~go /\ ManifestParsed /\ "jest" \notin d /\ "vitest" \in d) =>
             detected_framework = "typescript-vitest"
        /\ (~go /\ ManifestParsed /\ d \cap {"jest", "vitest"} = {} /\ "mocha" \in d) =>
             detected_framework = "javascript-mocha"
        /\ (~go /\ ~(ManifestParsed /\ d \cap TestRunners # {}) /\ PythonMarked) =>
             detected_framework = "python"
        /\ (~go /\ ~(ManifestParsed /\ d \cap TestRunners # {}) /\ ~PythonMarked) =>
             detected_framework = "unknown"
        /\ ("package.json" \in checkout.files /\ ~checkout.pkg_ok) =>
             detected_framework = detect_framework(
               Checkout(checkout.files \ {"package.json"}, TRUE, {}))

\* C15 witness: a checkout whose package.json does not parse and which holds
\* requirements.txt has been detected as python, and the attempts submitted.
C15_Witness ==
  /\ pc = "collect" /\ NoOverride
  /\ checkout.files = {"package.json", "requirements.txt"}
  /\ ~checkout.pkg_ok
  /\ detected_framework = "python"

\* C16: a request that carries an override runs with the override when it is
\* one of the five known tags and with unknown otherwise, whatever the
\* checkout holds; the handler does not reject an unrecognized override.
C16_OverrideBypassesDetection ==
  ~NoOverride =>
    /\ pc # "raised"
    /\ Resolved =>
         detected_framework =
           (IF framework_override[1] \in
                 {"python", "go", "typescript-jest", "typescript-vitest",
                  "javascript-mocha"}
              THEN framework_override[1] ELSE "unknown")

\* C16 witness: an unrecognized override on a checkout holding go.mod has run
\* as unknown, and the attempts were submitted.
C16_Witness ==
  /\ pc = "collect" /\ framework_override = Some("bogus")
  /\ "go.mod" \in checkout.files
  /\ detected_framework = "unknown"

\* The seed variable the contract names for a framework.
SeedVariableOf(fw) ==
  CASE fw = "go" -> "GO_TEST_SEED"
    [] fw = "typescript-jest" -> "JEST_SEED"
    [] fw = "typescript-vitest" -> "VITE_TEST_SEED"
    [] fw = "javascript-mocha" -> "MOCHA_SEED"
    [] OTHER -> "TEST_SEED"

\* The decimal text of the attempt indices 0, 1, 2, ... in order.
IndexText == <<"0", "1", "2", "3", "4", "5", "6", "7", "8", "9", "10">>

\* C17: the environment overrides of every attempt i are exactly the seed
\* variable of the run's framework, set to an integer of [1, 1000000], and
\* ATTEMPT set to i; no two attempts share an ATTEMPT value, and for go the
\* overrides hold GO_TEST_SEED and not TEST_SEED.
C17_EnvOverridesExactlySeedAndAttempt ==
  /\ \A k \in Positions :
       LET e == futures[k].env
           v == SeedVariableOf(detected_framework)
       IN  /\ DOMAIN e = {v, "ATTEMPT"}
           /\ e["ATTEMPT"] = IndexText[k]
           /\ e[v] \in {"1", "1000000"}
           /\ detected_framework = "go" =>
                "GO_TEST_SEED" \in DOMAIN e /\ "TEST_SEED" \notin DOMAIN e
  /\ \A j, k \in Positions :
       j # k => futures[j].env["ATTEMPT"] # futures[k].env["ATTEMPT"]

\* C17 witness: a go run submitted two attempts with different seeds.
C17_Witness ==
  /\ pc = "collect" /\ detected_framework = "go" /\ Len(futures) = 2
  /\ futures[1].env["GO_TEST_SEED"] # futures[2].env["GO_TEST_SEED"]

\* A call of get_severity has classified the rate of the state.
Classified == severity # ""

\* The thresholds descend from critical to low.
ThresholdsOrdered ==
  /\ thresholds.critical >= thresholds.high
  /\ thresholds.high >= thresholds.medium
  /\ thresholds.medium >= thresholds.low

\* C18: get_severity gives the highest tier whose threshold the rate meets or
\* exceeds, evaluated top-down with >=, and NONE when the rate meets none of
\* them, which for descending thresholds is a rate below the low threshold; a
\* rate equal to a threshold falls in its tier, and with the default
\* thresholds 0.9 is CRITICAL, 0.5 HIGH, 0.1 MEDIUM, 0.01 LOW and 0.0 NONE.
C18_SeverityTiers ==
  Classified =>
    LET t == thresholds
    IN  /\ severity = "CRITICAL" <=> rate >= t.critical
        /\ severity = "HIGH" <=> (rate < t.critical /\ rate >= t.high)
        /\ severity = "MEDIUM" <=>
             (rate < t.critical /\ rate < t.high /\ rate >= t.medium)
        /\ severity = "LOW" <=>
             (rate < t.critical /\ rate < t.high /\ rate < t.medium /\ rate >= t.low)
        /\ severity = "NONE" <=>
             (rate < t.critical /\ rate < t.high /\ rate < t.medium /\ rate < t.low)
        /\ ThresholdsOrdered => (severity = "NONE" <=> rate < t.low)
        /\ (ThresholdsOrdered /\ rate = t.high /\ t.high < t.critical) => severity = "HIGH"
        /\ (ThresholdsOrdered /\ rate = t.medium /\ t.medium < t.high) => severity = "MEDIUM"
        /\ (ThresholdsOrdered /\ rate = t.low /\ t.low < t.medium) => severity = "LOW"
        /\ t = Thresholds(900, 500, 100, 10) =>
             /\ rate = 900 => severity = "CRITICAL"
             /\ rate = 500 => severity = "HIGH"
             /\ rate = 100 => severity = "MEDIUM"
             /\ rate = 10 => severity = "LOW"
             /\ rate = 0 => severity = "NONE"

\* C18 witness: with the default thresholds, the rate 0.9 was classified
\* CRITICAL.
C18_Witness ==
  thresholds = Thresholds(900, 500, 100, 10) /\ rate = 900 /\ severity = "CRITICAL"

\* The order NONE < LOW < MEDIUM < HIGH < CRITICAL.
Rank(tier) ==
  CASE tier = "NONE" -> 0
    [] tier = "LOW" -> 1
    [] tier = "MEDIUM" -> 2
    [] tier = "HIGH" -> 3
    [] tier = "CRITICAL" -> 4

\* C19: for fixed thresholds, classifying a rate r1 and then a rate r2 >= r1
\* never gives r2 a lower tier than r1, and classifying a rate r2 <= r1 never
\* gives it a higher one.
C19_SeverityMonotone ==
  [][ (Classified /\ severity' # "" /\ thresholds' = thresholds) =>
        /\ rate <= rate' => Rank(severity) <= Rank(severity')
        /\ rate >= rate' => Rank(severity) >= Rank(severity') ]_vars

\* C19 witness: with the default thresholds, the rate 0.5 was classified HIGH
\* after an earlier classification.
C19_Witness ==
  thresholds = Thresholds(900, 500, 100, 10) /\ rate = 500 /\ severity = "HIGH"

\* The request names a local filesystem path as its repository.
LocalPathRepo == Len(repo) > 0 /\ repo[1] = "/"

\* C20: a request whose repo is a local filesystem path and which
\* validate_input accepts is not refused by the handler's validation: the
\* handler goes on to run the attempts instead of raising.
C20_LocalPathAccepted ==
  (LocalPathRepo /\ validation = Some(<< TRUE, <<>> >>)) => pc # "raised"

\* C21: when the request omits runs and parallelism and the repository holds
\* a .flaky-detector.yml that sets them, the summary's total_runs and
\* parallelism are the file's values and that many attempts are executed.
C21_ConfigFileValuesUsed ==
  (Returned /\ inp_runs = None /\ inp_parallelism = None /\ config_file # None) =>
    /\ summary[1].total_runs = config_file[1].runs
    /\ summary[1].parallelism = config_file[1].parallelism
    /\ Len(ReturnedResults) = config_file[1].runs

\* The handler has ended: it returned a summary or raised.
HandlerEnded == pc \in {"returned", "raised"}

\* The request passed the handler's validation.
PassedValidation == pc # "validate" /\ workdir # "absent"

\* C22: every handler invocation that passes validation ends, and ends with
\* the original working directory restored and the removal of the temporary
\* checkout attempted exactly once, whether it returns a summary, the clone
\* fails or times out, or a later step raises.
C22_CleanupOnEveryExit ==
  /\ [](rmtree_calls <= 1)
  /\ []((HandlerEnded /\ PassedValidation) => (cwd = "original" /\ rmtree_calls = 1))
  /\ [](pc = "raised" /\ ~PassedValidation => rmtree_calls = 0)
  /\ PassedValidation ~> (HandlerEnded /\ cwd = "original" /\ rmtree_calls = 1)

\* C22 witness: the clone failed, and the handler raised RuntimeError with
\* the working directory restored and one removal attempted.
C22_Witness ==
  /\ pc = "raised" /\ err # None /\ err[1][1] = "RuntimeError"
  /\ cwd = "original" /\ rmtree_calls = 1

\* C23: no failure of the dependency installation aborts the run: the
\* handler never ends with an exception of install_dependencies.
C23_InstallNeverAborts ==
  \A out \in InstallOutcomes : err # Some(<<out, "install">>)

\* Thread t has an account from checkout and has not checked it in.
Holding(t) == thr[t].pc \in {"holding", "in_block", "finally", "finally_raising"}

AccountOf(i) == CHOOSE a \in { AccountList[k] : k \in 1 .. Len(AccountList) } : a.id = i

\* Account a passes every filter of f that is given, the environment
\* defaulting to the manager's.
Matches(a, f) ==
  /\ f.account_type # None => a.account_type = f.account_type[1]
  /\ f.account_id # None => a.id = f.account_id[1]
  /\ a.environment = (IF f.environment = None THEN "local" ELSE f.environment[1])

\* Thread t's step is a call of checkout.
CheckoutCalled(t) == thr[t].pc = "idle" /\ thr'[t] # thr[t] /\ thr'[t].asked # None

\* C25: the cleanup releases a checkout only when its age is greater than its
\* timeout; a checkout whose age is greater than its timeout is eventually
\* released; and an account without a checkout record can be checked out.
C25_ReleasedIffExpired ==
  /\ [][ \A i \in AccountIds :
           (i \in DOMAIN checkouts /\ i \notin DOMAIN checkouts' /\ thr' = thr) =>
             now - checkouts[i].checked_out_at > checkouts[i].timeout ]_vars
  /\ \A i \in AccountIds :
       (i \in DOMAIN checkouts /\ now - checkouts[i].checked_out_at > checkouts[i].timeout)
         ~> (i \notin DOMAIN checkouts
             \/ now - checkouts[i].checked_out_at <= checkouts[i].timeout)
  /\ [](\A i \in AccountIds :
          i \notin DOMAIN checkouts =>
            find_available_account(
              checkouts, Filter(None, Some(i), Some(AccountOf(i).environment)))
            = Some(AccountOf(i)))

\* C25 witness: a thread still holds an account whose checkout outlived its
\* timeout and was released by the cleanup.
C25_Witness ==
  \E t \in Holders :
    /\ Holding(t)
    /\ now - thr[t].at > thr[t].timeout
    /\ thr[t].account[1] \notin DOMAIN checkouts

\* C26: when the with-block of checkout_account is left, normally or by an
\* exception, the account is checked in, the number of checked-out accounts
\* is what it was before the block was entered, and an exception of the
\* block reaches the caller; a thread outside a block has no record in the
\* table.
C26_ContextManagerChecksIn ==
  /\ [](\A i \in DOMAIN checkouts : Holding(checkouts[i].checked_out_by))
  /\ [][ \A t \in Holders :
           (thr[t].pc \in {"finally", "finally_raising"} /\ thr'[t].pc = "idle") =>
             /\ thr[t].account[1] \notin DOMAIN checkouts'
             /\ Cardinality(DOMAIN checkouts') = thr[t].before
             /\ thr'[t].outcome = "BlockError" <=> thr[t].pc = "finally_raising" ]_vars

\* C26 witness: a with-block entered while another thread held an account
\* was left by an exception, which reached the caller.
C26_Witness ==
  /\ thr["A"].pc = "idle" /\ thr["A"].outcome = "BlockError"
  /\ DOMAIN checkouts = {"admin-1"}

\* C27: checkout returns an account that is not checked out and matches
\* every filter given; when no such account exists it raises RuntimeError and
\* leaves the table unchanged; checkin makes the account available to a later
\* checkout; checkin of an id that is not checked out changes nothing.
C27_CheckoutMatchesFilters ==
  [][ \A t \in Holders :
        /\ (CheckoutCalled(t) /\ Holding(t)') =>
             LET a == AccountOf(thr'[t].account[1])
             IN  /\ a.id \notin DOMAIN checkouts
                 /\ Matches(a, thr'[t].asked[1])
                 /\ DOMAIN checkouts' = DOMAIN checkouts \cup {a.id}
                 /\ checkouts'[a.id].checked_out_by = t
                 /\ \A i \in DOMAIN checkouts : checkouts'[i] = checkouts[i]
        /\ (CheckoutCalled(t) /\ ~Holding(t)') =>
             /\ thr'[t].outcome = "RuntimeError"
             /\ checkouts' = checkouts
             /\ \A i \in AccountIds :
                  Matches(AccountOf(i), thr'[t].asked[1]) => i \in DOMAIN checkouts
        /\ (Holding(t) /\ thr'[t].pc = "idle") =>
             LET a == AccountOf(thr[t].account[1])
             IN  /\ a.id \notin DOMAIN checkouts'
                 /\ find_available_account(
                      checkouts', Filter(None, Some(a.id), Some(a.environment))) = Some(a)
        /\ (thr[t].pc = "idle" /\ thr'[t] # thr[t] /\ thr'[t].asked = None) =>
             checkouts' = checkouts ]_vars

\* C27 witness: a checkout asking for a premium account raised RuntimeError
\* while another thread holds the prod account it asked for by environment.
C27_Witness ==
  /\ thr["A"].outcome = "RuntimeError"
  /\ thr["A"].asked = Some(Filter(Some("premium"), None, None))
  /\ thr["B"].account = Some("user-1-prod")
  /\ thr["B"].asked = Some(Filter(None, None, Some("prod")))

\* C28: an account checked out by a holder stays checked out by that holder
\* until the holder checks it in or the holder's own timeout has expired,
\* whatever other threads do, a checkin by an earlier holder whose checkout
\* was auto-released included.
C28_HolderKeepsAccount ==
  \A t \in Holders :
    (Holding(t) /\ now - thr[t].at <= thr[t].timeout) =>
      /\ thr[t].account[1] \in DOMAIN checkouts
      /\ checkouts[thr[t].account[1]].checked_out_by = t

\* C29: Config instances are isolated from each other and from the module
\* defaults: whatever Configs were constructed before, a Config built without
\* overrides has runs = 10, parallelism = 4 and the thresholds 0.9, 0.5, 0.1
\* and 0.01.
C29_ConfigsIsolated ==
  \A k \in 1 .. Len(configs) :
    configs[k].config_dict = None =>
      /\ configs[k].runs = 10
      /\ configs[k].parallelism = 4
      /\ SeverityThresholdsOf(k) = Thresholds(900, 500, 100, 10)

\* C30: for every reproduction rate a run can produce, the tier of the Slack
\* message and the tier of the local runner are the tier Config.get_severity
\* returns with the default thresholds.
C30_ReportedTiersAgree ==
  (Classified /\ thresholds = Thresholds(900, 500, 100, 10)) =>
    /\ reported.slack # "" => reported.slack = severity
    /\ reported.local # "" => reported.local = severity

====
